---- MODULE Spec2Model ----
(***************************************************************************)
(* Model of vc-database/vcdb.py: the TF-IDF vector database (tokenizer,    *)
(* vectorizer, index store, module registry with its lru_cache, query      *)
(* engine and result enricher).                                            *)
(*                                                                         *)
(* Text is a sequence of one-character strings, so that splitting,         *)
(* trimming, tokenizing and the parameter pattern are computed character   *)
(* by character as the Python code computes them.  Floating-point numbers  *)
(* are fixed-point integers with Precision units per 1.0.                  *)
(***************************************************************************)
EXTENDS Integers, Sequences, FiniteSets, TLC

VARIABLES
    files,   \* the source locations: path -> file content
    build,   \* the build location: whether it exists and its .dat documents
    cache,   \* the lru_cache of load_module_id_map, least recently used first
    loaded,  \* history: the arguments loaded successfully since the last cache_clear
    ret      \* the last call: operation, arguments, outcome

vars == <<files, build, cache, loaded, ret>>

---------------------------------------------------------------------------
(* Characters and the str methods the code uses.                           *)

Lowers ==
    <<"a", "b", "c", "d", "e", "f", "g", "h", "i", "j", "k", "l", "m",
      "n", "o", "p", "q", "r", "s", "t", "u", "v", "w", "x", "y", "z">>

Uppers ==
    <<"A", "B", "C", "D", "E", "F", "G", "H", "I", "J", "K", "L", "M",
      "N", "O", "P", "Q", "R", "S", "T", "U", "V", "W", "X", "Y", "Z">>

Digits == <<"0", "1", "2", "3", "4", "5", "6", "7", "8", "9">>

\* The characters in code-point order, as sorted() compares them.
CodePoints ==
    <<"\t", "\n", "\r", " ", "(", ")", ",", "-", ".">> \o Digits \o <<":", "?">>
        \o Uppers \o <<"_">> \o Lowers \o <<"|">>

Range(s) == {s[i] : i \in DOMAIN s}

IndexOf(c, s) == CHOOSE i \in DOMAIN s : s[i] = c

Min(S) == CHOOSE x \in S : \A y \in S : x <= y

Max(S) == CHOOSE x \in S : \A y \in S : x >= y

WhiteSpace == {" ", "\n", "\t", "\r"}

WordChars == Range(Digits) \cup Range(Uppers) \cup {"_"} \cup Range(Lowers)

LowerOf == [c \in Range(Uppers) |-> Lowers[IndexOf(c, Uppers)]]

IsSpace(c) == c \in WhiteSpace

\* Mutation of IsWordChar: the pattern \S+ in place of \w+.
IsNotSpace(c) == c \notin WhiteSpace

\* \w
IsWordChar(c) == c \in WordChars

str_lower(text) ==
    [i \in DOMAIN text |->
        IF text[i] \in DOMAIN LowerOf THEN LowerOf[text[i]] ELSE text[i]]

str_strip(s) ==
    LET keep == {i \in DOMAIN s : ~IsSpace(s[i])}
    IN  IF keep = {} THEN <<>> ELSE SubSeq(s, Min(keep), Max(keep))

StartsAt(s, i, sep) ==
    /\ i + Len(sep) - 1 <= Len(s)
    /\ SubSeq(s, i, i + Len(sep) - 1) = sep

RECURSIVE str_split(_, _)
str_split(s, sep) ==
    LET hits == {i \in DOMAIN s : StartsAt(s, i, sep)}
    IN  IF hits = {} THEN <<s>>
        ELSE <<SubSeq(s, 1, Min(hits) - 1)>>
             \o str_split(SubSeq(s, Min(hits) + Len(sep), Len(s)), sep)

RECURSIVE str_join(_, _)
str_join(sep, items) ==
    IF items = <<>> THEN <<>>
    ELSE IF Len(items) = 1 THEN items[1]
    ELSE items[1] \o sep \o str_join(sep, Tail(items))

RECURSIVE str_int(_)
str_int(n) ==
    IF n < 10 THEN <<Digits[n + 1]>>
    ELSE str_int(n \div 10) \o <<Digits[(n % 10) + 1]>>

NonEmpty(s) == s # <<>>

\* [e.strip() for e in content.split("\n\n") if e.strip()]
split_entries(content) ==
    LET parts == str_split(content, <<"\n", "\n">>)
    IN  SelectSeq([i \in DOMAIN parts |-> str_strip(parts[i])], NonEmpty)

RECURSIVE findall_words(_, _, _)
findall_words(text, i, word) ==
    LET done == IF word = <<>> THEN <<>> ELSE <<word>>
    IN  IF i > Len(text) THEN done
        ELSE IF IsWordChar(text[i])
             THEN findall_words(text, i + 1, Append(word, text[i]))
             ELSE done \o findall_words(text, i + 1, <<>>)

tokenize(text) == findall_words(str_lower(text), 1, <<>>)

parse_op_name(entry) == str_strip(str_split(entry, <<"|">>)[1])

---------------------------------------------------------------------------
(* Dictionaries.                                                           *)

EmptyDict == [k \in {} |-> 0]

Put(d, k, v) == [x \in DOMAIN d \cup {k} |-> IF x = k THEN v ELSE d[x]]

\* dict.get(k): <<>> is None, <<v>> a value.
None == <<>>

Get(d, k) == IF k \in DOMAIN d THEN <<d[k]>> ELSE None

---------------------------------------------------------------------------
(* The texts the files and queries are drawn from.                         *)

\* 'mymod | Example module for tests.\n'
ManifestTest ==
    <<"m", "y", "m", "o", "d", " ", "|", " ", "E", "x", "a", "m", "p", "l",
      "e", " ", "m", "o", "d", "u", "l", "e", " ", "f", "o", "r", " ", "t",
      "e", "s", "t", "s", ".", "\n">>
\* 'alpha | x\n\nbeta | y\n'
ManifestTwo ==
    <<"a", "l", "p", "h", "a", " ", "|", " ", "x", "\n", "\n", "b", "e", "t",
      "a", " ", "|", " ", "y", "\n">>
\* 'beta | y\n\nalpha | x\n'
ManifestSwapped ==
    <<"b", "e", "t", "a", " ", "|", " ", "y", "\n", "\n", "a", "l", "p", "h",
      "a", " ", "|", " ", "x", "\n">>
\* '| text\n\nalpha | x'
ManifestNoName ==
    <<"|", " ", "t", "e", "x", "t", "\n", "\n", "a", "l", "p", "h", "a", " ",
      "|", " ", "x">>
\* 'mymod\n\n\n | \n\nutil|u\n\nmymod | m'
ManifestMixed ==
    <<"m", "y", "m", "o", "d", "\n", "\n", "\n", " ", "|", " ", "\n", "\n",
      "u", "t", "i", "l", "|", "u", "\n", "\n", "m", "y", "m", "o", "d", " ",
      "|", " ", "m">>
\* ' \n\n\n'
ManifestBlank ==
    <<" ", "\n", "\n", "\n">>
\* 'add | Adds two numbers. Parameters: a, b.\n\nprint | Prints a value. Parameters: value.\n'
SourceTest ==
    <<"a", "d", "d", " ", "|", " ", "A", "d", "d", "s", " ", "t", "w", "o",
      " ", "n", "u", "m", "b", "e", "r", "s", ".", " ", "P", "a", "r", "a",
      "m", "e", "t", "e", "r", "s", ":", " ", "a", ",", " ", "b", ".", "\n",
      "\n", "p", "r", "i", "n", "t", " ", "|", " ", "P", "r", "i", "n", "t",
      "s", " ", "a", " ", "v", "a", "l", "u", "e", ".", " ", "P", "a", "r",
      "a", "m", "e", "t", "e", "r", "s", ":", " ", "v", "a", "l", "u", "e",
      ".", "\n">>
\* 'sub | numbers\n\nadd | Add numbers\n\nadd | Add numbers'
SourceTies ==
    <<"s", "u", "b", " ", "|", " ", "n", "u", "m", "b", "e", "r", "s", "\n",
      "\n", "a", "d", "d", " ", "|", " ", "A", "d", "d", " ", "n", "u", "m",
      "b", "e", "r", "s", "\n", "\n", "a", "d", "d", " ", "|", " ", "A", "d",
      "d", " ", "n", "u", "m", "b", "e", "r", "s">>
\* 'add | adds'
SourceSingle ==
    <<"a", "d", "d", " ", "|", " ", "a", "d", "d", "s">>
\* '\n\n \n'
SourceBlank ==
    <<"\n", "\n", " ", "\n">>
\* '?\n\nadd | ADD a. PARAMETER: .x'
SourceNoWords ==
    <<"?", "\n", "\n", "a", "d", "d", " ", "|", " ", "A", "D", "D", " ", "a",
      ".", " ", "P", "A", "R", "A", "M", "E", "T", "E", "R", ":", " ", ".",
      "x">>
\* 'util | u\n\nmymod | m'
ManifestUtilFirst ==
    <<"u", "t", "i", "l", " ", "|", " ", "u", "\n", "\n", "m", "y", "m", "o",
      "d", " ", "|", " ", "m">>
\* 'vector-categories'
ManifestStem ==
    <<"v", "e", "c", "t", "o", "r", "-", "c", "a", "t", "e", "g", "o", "r",
      "i", "e", "s">>
\* 'mymod'
MymodStem ==
    <<"m", "y", "m", "o", "d">>
\* 'util'
UtilStem ==
    <<"u", "t", "i", "l">>
\* 'how to add numbers'
QueryTest ==
    <<"h", "o", "w", " ", "t", "o", " ", "a", "d", "d", " ", "n", "u", "m",
      "b", "e", "r", "s">>
\* ''
QueryEmpty ==
    <<>>
\* ' ?\n'
QueryNoWords ==
    <<" ", "?", "\n">>
\* 'numbers, NUMBERS'
QueryNumbers ==
    <<"n", "u", "m", "b", "e", "r", "s", ",", " ", "N", "U", "M", "B", "E",
      "R", "S">>
---------------------------------------------------------------------------
(* Files.  A file is absent, holds text, or holds bytes that are not       *)
(* UTF-8, which read_text()/f.read() refuse with UnicodeDecodeError.       *)

Absent == [kind |-> "absent", text |-> <<>>]

Undecodable == [kind |-> "undecodable", text |-> <<>>]

TextFile(t) == [kind |-> "text", text |-> t]

DefaultDir == "source"

OtherDir == "tmp"

\* Path(source_dir) if source_dir else base / "source"
resolve_source_dir(source_dir) ==
    IF source_dir = None THEN DefaultDir ELSE source_dir[1]

---------------------------------------------------------------------------
(* Module registry: load_module_id_map and its lru_cache.                  *)

\* Mutation of enumerate_entries: the id counts the kept names only.
RECURSIVE enumerate_kept(_, _, _)
enumerate_kept(entries, i, module_map) ==
    IF i > Len(entries) THEN module_map
    ELSE LET name == parse_op_name(entries[i])
         IN  enumerate_kept(entries, i + 1,
                 IF name # <<>> /\ name \notin DOMAIN module_map
                 THEN Put(module_map, name, Cardinality(DOMAIN module_map))
                 ELSE module_map)

\* for module_id, entry in enumerate(entries): ... module_map[name] = module_id
\* (i is the one-based position, module_id = i - 1)
RECURSIVE enumerate_entries(_, _, _)
enumerate_entries(entries, i, module_map) ==
    IF i > Len(entries) THEN module_map
    ELSE LET name == parse_op_name(entries[i])
         IN  enumerate_entries(entries, i + 1,
                 IF name # <<>> THEN Put(module_map, name, i - 1)
                 ELSE module_map)

\* The undecorated function: its outcome and the content it parsed.
load_module_id_map(fs, source_dir) ==
    LET cat_path == <<resolve_source_dir(source_dir), ManifestStem>>
        f == fs[cat_path]
    IN  IF f.kind = "absent"
        THEN [status |-> "ok", value |-> EmptyDict, snapshot |-> f]
        ELSE IF f.kind = "undecodable"
        THEN [status |-> "error", value |-> EmptyDict, snapshot |-> f]
        ELSE [status |-> "ok",
              value |-> enumerate_entries(split_entries(f.text), 1, EmptyDict),
              snapshot |-> f]

maxsize == 1

CacheKeys(c) == {c[i].key : i \in DOMAIN c}

CacheEntry(c, key) == c[CHOOSE i \in DOMAIN c : c[i].key = key]

\* Mutation of cache_store: the result is never kept.
cache_store_nothing(c, e) == c

\* A miss stores the result and evicts the least recently used entries.
cache_store(c, e) ==
    LET full == Append(c, e)
    IN  IF Len(full) > maxsize
        THEN SubSeq(full, Len(full) - maxsize + 1, Len(full))
        ELSE full

\* A hit makes the entry the most recently used.
cache_touch(c, key) ==
    LET e == CacheEntry(c, key)
        rest == SelectSeq(c, LAMBDA x : x.key # key)
    IN  Append(rest, e)

\* The decorated call: a hit returns the stored mapping without running the
\* function; a miss runs it and stores the result unless it raised.
\* Each entry remembers the content it was parsed from (history only).
cached_load(c, fs, source_dir) ==
    IF source_dir \in CacheKeys(c)
    THEN LET e == CacheEntry(c, source_dir)
         IN  [cache |-> cache_touch(c, source_dir), status |-> "ok",
              value |-> e.value, snapshot |-> e.snapshot, parsed |-> FALSE]
    ELSE LET r == load_module_id_map(fs, source_dir)
         IN  [cache |-> IF r.status = "ok"
                        THEN cache_store(c, [key |-> source_dir, value |-> r.value,
                                             snapshot |-> r.snapshot])
                        ELSE c,
              status |-> r.status, value |-> r.value, snapshot |-> r.snapshot,
              parsed |-> TRUE]

\* Mutation of cache_clear: the default location's entry survives.
cache_clear_others(c) == SelectSeq(c, LAMBDA e : e.key = None)

cache_clear(c) == <<>>

\* History of the successful loads: since the last cache_clear in order of
\* last use, and those made before it.
LoadedAfter(r, source_dir) ==
    IF r.status = "ok"
    THEN [loaded EXCEPT !.since =
             Append(SelectSeq(loaded.since, LAMBDA a : a # source_dir), source_dir)]
    ELSE loaded

\* No call is outstanding: the caller has taken the last result.
Idle == [op |-> "idle"]

---------------------------------------------------------------------------
(* Numbers.  A float is a fixed-point integer, Precision units per 1.0.    *)

Precision == 10000

\* ln(1), ln(2), ... in thousandths.
LnMilli == <<0, 693, 1099, 1386, 1609, 1792, 1946, 2079, 2197, 2303>>

\* math.log(n / d) for counts n >= d >= 1
math_log(n, d) == ((LnMilli[n] - LnMilli[d]) * Precision) \div 1000

\* a / b for counts a, b
fdiv(a, b) == (a * Precision) \div b

\* x * y for floats x, y
fmul(x, y) == (x * y) \div Precision

RECURSIVE isqrt(_, _, _)
isqrt(n, lo, hi) ==
    IF lo >= hi THEN lo
    ELSE LET mid == (lo + hi + 1) \div 2
         IN  IF mid * mid <= n THEN isqrt(n, mid, hi) ELSE isqrt(n, lo, mid - 1)

\* math.sqrt(x) for a float x >= 0
math_sqrt(x) == isqrt(x * Precision, 0, 46340)

RECURSIVE SumOver(_, _)
SumOver(f, S) ==
    IF S = {} THEN 0
    ELSE LET k == CHOOSE k \in S : TRUE IN f[k] + SumOver(f, S \ {k})

---------------------------------------------------------------------------
(* Vectorizer: build_tfidf.                                                *)

CodeOf == [c \in Range(CodePoints) |-> IndexOf(c, CodePoints)]

RECURSIVE str_less(_, _)
str_less(a, b) ==
    IF a = <<>> THEN b # <<>>
    ELSE IF b = <<>> THEN FALSE
    ELSE IF a[1] = b[1] THEN str_less(Tail(a), Tail(b))
    ELSE CodeOf[a[1]] < CodeOf[b[1]]

RECURSIVE sorted(_)
sorted(S) ==
    IF S = {} THEN <<>>
    ELSE LET m == CHOOSE x \in S : \A y \in S \ {x} : str_less(x, y)
         IN  <<m>> \o sorted(S \ {m})

\* {w: i for i, w in enumerate(vocab)}
word_index(vocab) ==
    [w \in Range(vocab) |-> Max({i \in DOMAIN vocab : vocab[i] = w}) - 1]

\* tf[w] = tf.get(w, 0) + 1 over the words counted
term_counts(words, counted) ==
    [w \in Range(words) \cap counted |->
        Cardinality({i \in DOMAIN words : words[i] = w})]

\* {str(word_idx[w]): (tf[w] / n) * idf.get(w, 0) for w in tf}
sparse_vector(tf, n, word_idx, idf) ==
    [k \in {str_int(word_idx[w]) : w \in DOMAIN tf} |->
        LET w == CHOOSE w \in DOMAIN tf : str_int(word_idx[w]) = k
        IN  fmul(fdiv(tf[w], n), IF w \in DOMAIN idf THEN idf[w] ELSE 0)]

build_tfidf(entries) ==
    LET docs == [i \in DOMAIN entries |-> tokenize(entries[i])]
        vocab == sorted(UNION {Range(docs[i]) : i \in DOMAIN docs})
        word_idx == word_index(vocab)
        N == Len(docs)
        df == [w \in Range(vocab) |->
                  Cardinality({i \in DOMAIN docs : w \in Range(docs[i])})]
        idf == [w \in Range(vocab) |->
                   IF df[w] # 0 THEN math_log(N, df[w]) ELSE 0]
        vectors == [i \in DOMAIN docs |->
                       IF docs[i] = <<>> THEN EmptyDict
                       ELSE sparse_vector(term_counts(docs[i], Range(docs[i])),
                                          Len(docs[i]), word_idx, idf)]
    IN  [vocab |-> vocab, idf |-> idf, vectors |-> vectors]

---------------------------------------------------------------------------
(* Index store: vectorize_file and vectorize_all.                          *)

Fields == {"vocab", "idf", "vectors", "entries", "metadata"}

JsonFile(data) == [kind |-> "json", data |-> data]

Garbage == [kind |-> "garbage", data |-> EmptyDict]

\* The outcome of vectorize_file and the build location it leaves.
vectorize_file(fs, b, source_file) ==
    LET f == fs[source_file]
        entries == split_entries(f.text)
        tfidf == build_tfidf(entries)
        data == [vocab |-> tfidf.vocab, idf |-> tfidf.idf,
                 vectors |-> tfidf.vectors, entries |-> entries,
                 metadata |-> [source |-> source_file[2]]]
    IN  IF f.kind # "text" THEN [status |-> "error", value |-> FALSE, build |-> b]
        ELSE IF entries = <<>> THEN [status |-> "ok", value |-> FALSE, build |-> b]
        ELSE [status |-> "ok", value |-> TRUE,
              build |-> [exists |-> TRUE,
                         dat |-> Put(b.dat, source_file[2], JsonFile(data))]]

\* for f in txt_files: vectorize_file(f, build_dir) -- an exception ends the loop
RECURSIVE vectorize_loop(_, _, _)
vectorize_loop(fs, b, txt_files) ==
    IF txt_files = <<>> THEN [status |-> "ok", build |-> b]
    ELSE LET r == vectorize_file(fs, b, txt_files[1])
         IN  IF r.status = "error" THEN [status |-> "error", build |-> r.build]
             ELSE vectorize_loop(fs, r.build, Tail(txt_files))

\* source_dir.glob('*.txt'): the files that exist there, in any order
Glob(S) ==
    {order \in [1 .. Cardinality(S) -> S] :
        \A i, j \in DOMAIN order : i # j => order[i] # order[j]}

txt_files_of(fs, dir) == {p \in DOMAIN fs : p[1] = dir /\ fs[p].kind # "absent"}

---------------------------------------------------------------------------
(* Result enricher: parse_params, make_signature, enrich_result.           *)

ParameterWord == <<"p", "a", "r", "a", "m", "e", "t", "e", "r">>

\* Where "Parameters?:" (ignoring case) matched at i ends, the position of
\* its colon; 0 when it does not match at i.
ColonAfter(entry, i) ==
    LET j == i + Len(ParameterWord)
    IN  IF \/ j - 1 > Len(entry)
           \/ str_lower(SubSeq(entry, i, j - 1)) # ParameterWord THEN 0
        ELSE IF /\ j + 1 <= Len(entry)
                /\ entry[j] \in {"s", "S"} /\ entry[j + 1] = ":" THEN j + 1
        ELSE IF j <= Len(entry) /\ entry[j] = ":" THEN j
        ELSE 0

\* Where the group ([^\.]+) starts after the colon at c: \s* takes all the
\* white space, and gives one character back when a '.' or the end follows;
\* 0 when nothing but a '.' or the end follows the colon.
GroupStart(entry, c) ==
    LET rest == {k \in (c + 1) .. Len(entry) : ~IsSpace(entry[k])}
        k == IF rest = {} THEN Len(entry) + 1 ELSE Min(rest)
    IN  IF k <= Len(entry) /\ entry[k] # "." THEN k
        ELSE IF k > c + 1 THEN k - 1
        ELSE 0

GroupEnd(entry, start) ==
    LET dots == {k \in start .. Len(entry) : entry[k] = "."}
    IN  IF dots = {} THEN Len(entry) ELSE Min(dots) - 1

\* re.search(r"Parameters?:\s*([^\.]+)", entry, flags=re.IGNORECASE)
parse_params(entry) ==
    LET hits == {i \in DOMAIN entry :
                    /\ ColonAfter(entry, i) # 0
                    /\ GroupStart(entry, ColonAfter(entry, i)) # 0}
    IN  IF hits = {} THEN <<>>
        ELSE LET start == GroupStart(entry, ColonAfter(entry, Min(hits)))
                 raw == SubSeq(entry, start, GroupEnd(entry, start))
                 items == str_split(raw, <<",">>)
             IN  SelectSeq([i \in DOMAIN items |-> str_strip(items[i])], NonEmpty)

\* Mutation of module_id_text: "?" if not module_id, so 0 reads as missing.
module_id_text_falsy(module_id) ==
    IF module_id = None \/ module_id = <<0>> THEN <<"?">> ELSE str_int(module_id[1])

\* mid = "?" if module_id is None else str(int(module_id))
module_id_text(module_id) ==
    IF module_id = None THEN <<"?">> ELSE str_int(module_id[1])

make_signature(module_id, opcode, params) ==
    LET mid == module_id_text(module_id)
    IN  IF params # <<>>
        THEN mid \o <<".">> \o str_int(opcode) \o <<"(">>
                 \o str_join(<<",", " ">>, params) \o <<")">>
        ELSE mid \o <<".">> \o str_int(opcode) \o <<"(", ")">>

enrich_result(entry, opcode, similarity, database, module_map) ==
    LET op_name == parse_op_name(entry)
        kind == IF database = ManifestStem THEN "category" ELSE "op"
        module_id == Get(module_map, IF kind = "category" THEN op_name ELSE database)
        module_name == IF kind = "category" THEN op_name ELSE database
        params == IF kind = "category" THEN <<>> ELSE parse_params(entry)
        signature == IF kind = "category" THEN <<>>
                     ELSE make_signature(module_id, opcode, params)
    IN  [entry |-> entry, opcode |-> opcode, similarity |-> similarity,
         database |-> database, kind |-> kind, module_name |-> module_name,
         module_id |-> module_id, op_name |-> op_name, params |-> params,
         signature |-> signature]

---------------------------------------------------------------------------
(* Query engine: cosine_sim, _search, search, search_all.                  *)

cosine_sim(v1, v2) ==
    LET keys == DOMAIN v1 \cup DOMAIN v2
        at(v, k) == IF k \in DOMAIN v THEN v[k] ELSE 0
        dot == SumOver([k \in keys |-> fmul(at(v1, k), at(v2, k))], keys)
        n1 == IF DOMAIN v1 # {}
              THEN math_sqrt(SumOver([k \in DOMAIN v1 |-> fmul(v1[k], v1[k])], DOMAIN v1))
              ELSE 0
        n2 == IF DOMAIN v2 # {}
              THEN math_sqrt(SumOver([k \in DOMAIN v2 |-> fmul(v2[k], v2[k])], DOMAIN v2))
              ELSE 0
    IN  IF n1 # 0 /\ n2 # 0 THEN (dot * Precision) \div fmul(n1, n2) ELSE 0

\* Where x goes in a list sorted by descending similarity: after every
\* element that does not score less (the sort is stable).
insert_stable(done, x) ==
    LET n == Cardinality({i \in DOMAIN done : done[i].similarity >= x.similarity})
    IN  SubSeq(done, 1, n) \o <<x>> \o SubSeq(done, n + 1, Len(done))

\* Mutation of list_sort: ascending similarity.
RECURSIVE list_sort_ascending(_)
list_sort_ascending(items) ==
    IF items = <<>> THEN <<>>
    ELSE LET done == list_sort_ascending(SubSeq(items, 1, Len(items) - 1))
             x == items[Len(items)]
             n == Cardinality({i \in DOMAIN done : done[i].similarity <= x.similarity})
         IN  SubSeq(done, 1, n) \o <<x>> \o SubSeq(done, n + 1, Len(done))

\* list.sort(key=lambda x: -x[1]) and list.sort(key=lambda x: -x['similarity'])
RECURSIVE list_sort(_)
list_sort(items) ==
    IF items = <<>> THEN <<>>
    ELSE insert_stable(list_sort(SubSeq(items, 1, Len(items) - 1)), items[Len(items)])

\* items[:k]
list_slice(items, k) ==
    IF k >= 0 THEN SubSeq(items, 1, IF k < Len(items) THEN k ELSE Len(items))
    ELSE SubSeq(items, 1, Len(items) + k)

Raised == [status |-> "error", value |-> <<>>]

Returned(value) == [status |-> "ok", value |-> value]

\* The query vector of the words in the vector space of db.
query_vector(db, words) ==
    LET word_idx == word_index(db.vocab)
        tf == term_counts(words, DOMAIN word_idx)
    IN  sparse_vector(tf, Len(words), word_idx, db.idf)

\* [(i, cosine_sim(q_vec, v)) for i, v in enumerate(db["vectors"])]
score_entries(db, words) ==
    LET q_vec == query_vector(db, words)
    IN  [i \in DOMAIN db.vectors |->
            [opcode |-> i - 1, similarity |-> cosine_sim(q_vec, db.vectors[i])]]

_search(b, query, database, top_k, module_map) ==
    IF ~b.exists \/ database \notin DOMAIN b.dat THEN Raised
    ELSE IF b.dat[database].kind # "json" THEN Raised
    ELSE LET db == b.dat[database].data
             words == tokenize(query)
         IN  IF words = <<>> THEN Returned(<<>>)
             ELSE IF {"vocab", "idf", "vectors"} \ DOMAIN db # {} THEN Raised
             ELSE LET top == list_slice(list_sort(score_entries(db, words)), top_k)
                  IN  IF top # <<>> /\ "entries" \notin DOMAIN db THEN Raised
                      ELSE Returned(
                          [n \in DOMAIN top |->
                              enrich_result(db.entries[top[n].opcode + 1],
                                            top[n].opcode, top[n].similarity,
                                            database, module_map)])

\* for dat in build_dir.glob('*.dat'): results.extend(_search(...))
RECURSIVE search_loop(_, _, _, _, _)
search_loop(b, query, dats, top_k, module_map) ==
    IF dats = <<>> THEN Returned(<<>>)
    ELSE LET r == _search(b, query, dats[1], top_k, module_map)
             rest == search_loop(b, query, Tail(dats), top_k, module_map)
         IN  IF r.status = "error" \/ rest.status = "error" THEN Raised
             ELSE Returned(r.value \o rest.value)

dat_files_of(b) == IF b.exists THEN DOMAIN b.dat ELSE {}

\* Mutation of search_all: the merged results are not sorted again.
search_all_unsorted(b, query, dats, top_k, module_map) ==
    LET r == search_loop(b, query, dats, top_k, module_map)
    IN  IF r.status = "error" THEN Raised
        ELSE Returned(list_slice(r.value, top_k))

search_all(b, query, dats, top_k, module_map) ==
    LET r == search_loop(b, query, dats, top_k, module_map)
    IN  IF r.status = "error" THEN Raised
        ELSE Returned(list_slice(list_sort(r.value), top_k))


---------------------------------------------------------------------------
(* The registry's operations.                                              *)

SourceArgs == {None, <<OtherDir>>}

ManifestContents ==
    {Absent, Undecodable} \cup
    {TextFile(t) : t \in {ManifestTest, ManifestTwo, ManifestSwapped,
                          ManifestNoName, ManifestMixed, ManifestBlank}}

ManifestPaths == {<<DefaultDir, ManifestStem>>, <<OtherDir, ManifestStem>>}

\* vcdb.load_module_id_map(source_dir)
LoadModuleIdMap(source_dir) ==
    LET r == cached_load(cache, files, source_dir)
    IN  /\ ret = Idle
        /\ cache' = r.cache
        /\ loaded' = LoadedAfter(r, source_dir)
        /\ ret' = [op |-> "load_module_id_map", arg |-> source_dir,
                   status |-> r.status, value |-> r.value,
                   parsed |-> r.parsed, snapshot |-> r.snapshot,
                   seen |-> source_dir \in Range(loaded.since),
                   latest |-> /\ loaded.since # <<>>
                              /\ loaded.since[Len(loaded.since)] = source_dir,
                   cleared |-> /\ source_dir \in loaded.before
                               /\ source_dir \notin Range(loaded.since)]
        /\ UNCHANGED <<files, build>>

\* vcdb.load_module_id_map.cache_clear()
CacheClear ==
    /\ ret = Idle
    /\ cache' = cache_clear(cache)
    /\ loaded' = [since |-> <<>>, before |-> loaded.before \cup Range(loaded.since)]
    /\ ret' = [op |-> "cache_clear"]
    /\ UNCHANGED <<files, build>>

\* The manifest of a location is written, replaced or removed from outside.
EditManifest(path, content) ==
    /\ ret = Idle
    /\ files[path] # content
    /\ files' = [files EXCEPT ![path] = content]
    /\ UNCHANGED <<build, cache, loaded, ret>>

\* The caller takes the result; results are not kept.
Return ==
    /\ ret # Idle
    /\ ret' = Idle
    /\ UNCHANGED <<files, build, cache, loaded>>

InitRegistry ==
    /\ files \in [ManifestPaths -> ManifestContents]
    /\ build = [exists |-> FALSE, dat |-> EmptyDict]
    /\ cache = <<>>
    /\ loaded = [since |-> <<>>, before |-> {}]
    /\ ret = Idle

NextRegistry ==
    \/ \E source_dir \in SourceArgs : LoadModuleIdMap(source_dir)
    \/ CacheClear
    \/ Return
    \/ \E path \in ManifestPaths, content \in ManifestContents :
           EditManifest(path, content)

SpecRegistry == InitRegistry /\ [][NextRegistry]_vars

---------------------------------------------------------------------------
(* Building the indexes.                                                   *)

SourcePaths ==
    {<<DefaultDir, ManifestStem>>, <<DefaultDir, MymodStem>>, <<DefaultDir, UtilStem>>}

AllPaths == SourcePaths \cup ManifestPaths

\* What each source file is drawn from.
SourceContents(path) ==
    IF path = <<DefaultDir, MymodStem>>
    THEN {Undecodable, TextFile(SourceTest), TextFile(SourceBlank)}
    ELSE IF path = <<DefaultDir, UtilStem>>
    THEN {Absent, TextFile(SourceSingle), TextFile(SourceNoWords)}
    ELSE {Absent, TextFile(ManifestTest)}

NoBuild == [exists |-> FALSE, dat |-> EmptyDict]

NoLoads == [since |-> <<>>, before |-> {}]

\* vcdb.vectorize_file(source_file, build_dir)
VectorizeFile(source_file) ==
    LET r == vectorize_file(files, build, source_file)
    IN  /\ ret = Idle
        /\ build' = r.build
        /\ ret' = [op |-> "vectorize_file", source_file |-> source_file,
                   status |-> r.status, value |-> r.value]
        /\ UNCHANGED <<files, cache, loaded>>

\* vcdb.vectorize_all() on the default locations
VectorizeAll ==
    \E txt_files \in Glob(txt_files_of(files, DefaultDir)) :
        LET r == vectorize_loop(files, build, txt_files)
        IN  /\ ret = Idle
            /\ build' = r.build
            /\ ret' = [op |-> "vectorize_all", txt_files |-> txt_files,
                       status |-> r.status]
            /\ UNCHANGED <<files, cache, loaded>>

\* A source file is written, replaced or removed from outside.
EditSource(path, content) ==
    /\ ret = Idle
    /\ files[path] # content
    /\ files' = [files EXCEPT ![path] = content]
    /\ UNCHANGED <<build, cache, loaded, ret>>

InitBuild ==
    /\ files \in [AllPaths -> {Absent, Undecodable, TextFile(ManifestTest),
                                TextFile(SourceTest), TextFile(SourceBlank),
                                TextFile(SourceSingle), TextFile(SourceNoWords)}]
    /\ \A p \in SourcePaths : files[p] \in SourceContents(p)
    /\ files[<<OtherDir, ManifestStem>>] = Absent
    /\ build = NoBuild
    /\ cache = <<>>
    /\ loaded = NoLoads
    /\ ret = Idle

NextBuild ==
    \/ \E source_file \in SourcePaths : VectorizeFile(source_file)
    \/ VectorizeAll
    \/ Return
    \/ \E path \in {<<DefaultDir, MymodStem>>, <<DefaultDir, UtilStem>>} :
           \E content \in SourceContents(path) : EditSource(path, content)

SpecBuild == InitBuild /\ [][NextBuild]_vars

---------------------------------------------------------------------------
(* Searching the indexes.                                                  *)

MaxTopK == 3

Databases == {MymodStem, UtilStem, ManifestStem}

Queries == {QueryEmpty, QueryNoWords, QueryTest, QueryNumbers}

\* The module maps the callers of _search pass.
ModuleMaps ==
    {EmptyDict, enumerate_entries(split_entries(ManifestUtilFirst), 1, EmptyDict)}

RequiredFields == {"entries", "vocab", "idf", "vectors"}

IsIntact(b, database) ==
    /\ b.exists
    /\ database \in DOMAIN b.dat
    /\ b.dat[database].kind = "json"
    /\ RequiredFields \subseteq DOMAIN b.dat[database].data

\* vcdb.search(query, db_path, top_k)
Search(query, database, top_k) ==
    LET m == cached_load(cache, files, None)
        r == IF m.status = "error" THEN Raised
             ELSE _search(build, query, database, top_k, m.value)
    IN  /\ ret = Idle
        /\ cache' = m.cache
        /\ loaded' = LoadedAfter(m, None)
        /\ ret' = [op |-> "search", query |-> query, database |-> database,
                   top_k |-> top_k, module_map |-> m.value,
                   status |-> r.status, value |-> r.value]
        /\ UNCHANGED <<files, build>>

\* vcdb._search(query, db_path, top_k, module_map)
SearchInternal(query, database, top_k, module_map) ==
    LET r == _search(build, query, database, top_k, module_map)
    IN  /\ ret = Idle
        /\ ret' = [op |-> "_search", query |-> query, database |-> database,
                   top_k |-> top_k, module_map |-> module_map,
                   status |-> r.status, value |-> r.value]
        /\ UNCHANGED <<files, build, cache, loaded>>

\* vcdb.search_all(query, build_dir, top_k); dats is the order in which
\* build_dir.glob('*.dat') yields the files.
SearchAll(query, top_k) ==
    \E dats \in Glob(dat_files_of(build)) :
        LET m == cached_load(cache, files, None)
            r == IF m.status = "error" THEN Raised
                 ELSE search_all(build, query, dats, top_k, m.value)
        IN  /\ ret = Idle
            /\ cache' = m.cache
            /\ loaded' = LoadedAfter(m, None)
            /\ ret' = [op |-> "search_all", query |-> query, dats |-> dats,
                       top_k |-> top_k, module_map |-> m.value,
                       status |-> r.status, value |-> r.value]
            /\ UNCHANGED <<files, build>>

\* The indexes of the given source files, each written by vectorize_file.
RECURSIVE built_from(_, _, _)
built_from(fs, b, sources) ==
    IF sources = <<>> THEN b
    ELSE built_from(fs, vectorize_file(fs, b, sources[1]).build, Tail(sources))

\* The build location with one index file removed.
without_index(b, database) ==
    [b EXCEPT !.dat = [d \in DOMAIN b.dat \ {database} |-> b.dat[d]]]

\* The build location with one index document lacking a field.
without_field(b, database, field) ==
    [b EXCEPT !.dat[database].data = [k \in DOMAIN @ \ {field} |-> @[k]]]

\* The build location with one index file holding text that is not JSON.
with_garbage(b, database) == [b EXCEPT !.dat[database] = Garbage]

\* The states of the build location a query may find: as vectorized, gone,
\* or with one index file removed or overwritten from outside.
IndexStates(b) ==
    {b, NoBuild}
    \cup {without_index(b, d) : d \in DOMAIN b.dat}
    \cup {with_garbage(b, d) : d \in DOMAIN b.dat}
    \cup {without_field(b, d, f) : d \in DOMAIN b.dat, f \in Fields}

SearchSources ==
    <<<<DefaultDir, ManifestStem>>, <<DefaultDir, MymodStem>>, <<DefaultDir, UtilStem>>>>

InitSearch ==
    /\ \E manifest \in {Undecodable, TextFile(ManifestTest)} :
           files = [p \in AllPaths |->
                       IF p = <<DefaultDir, ManifestStem>> THEN manifest
                       ELSE IF p = <<DefaultDir, MymodStem>> THEN TextFile(SourceTest)
                       ELSE IF p = <<DefaultDir, UtilStem>> THEN TextFile(SourceTies)
                       ELSE Absent]
    /\ build \in IndexStates(built_from(files, NoBuild, SearchSources))
    /\ cache = <<>>
    /\ loaded = NoLoads
    /\ ret = Idle

NextSearch ==
    \/ \E query \in Queries, database \in Databases, top_k \in 0 .. MaxTopK :
           Search(query, database, top_k)
    \/ \E query \in Queries, database \in Databases, top_k \in 0 .. MaxTopK,
          module_map \in ModuleMaps :
           SearchInternal(query, database, top_k, module_map)
    \/ \E query \in Queries, top_k \in 0 .. MaxTopK : SearchAll(query, top_k)
    \/ Return

SpecSearch == InitSearch /\ [][NextSearch]_vars

---------------------------------------------------------------------------
(* Claims about the module registry.                                       *)

ManifestNames(text) ==
    LET entries == split_entries(text)
    IN  [i \in DOMAIN entries |-> parse_op_name(entries[i])]

IsLoadResult == ret.op = "load_module_id_map" /\ ret.status = "ok"

\* C1 as stated: every kept name is mapped to its zero-based position among
\* the records that are not skipped, so the ids of a mapping are exactly
\* 0..n-1 and a record with an empty name consumes no id.
C1_DenseIds ==
    (IsLoadResult /\ ret.snapshot.kind = "text") =>
        LET kept == SelectSeq(ManifestNames(ret.snapshot.text), NonEmpty)
        IN  /\ {ret.value[k] : k \in DOMAIN ret.value}
                = 0 .. (Cardinality(DOMAIN ret.value) - 1)
            /\ \A k \in DOMAIN ret.value :
                   /\ ret.value[k] + 1 \in DOMAIN kept
                   /\ kept[ret.value[k] + 1] = k

\* m is the mapping the manifest content f defines: the names are the
\* non-empty record names, and a name's id is the zero-based position of the
\* last record bearing it among all non-blank records, skipped ones included.
IsMappingOf(m, f) ==
    IF f.kind # "text" THEN m = EmptyDict
    ELSE LET names == ManifestNames(f.text)
         IN  /\ DOMAIN m = Range(names) \ {<<>>}
             /\ \A k \in DOMAIN m :
                    m[k] = Max({i \in DOMAIN names : names[i] = k}) - 1

\* C1 amended: the mapping assigns each kept name the zero-based position of
\* its last record among all non-blank records in file order; a record with
\* an empty name is left out of the mapping but still consumes an id, and
\* the ids are dense (0..n-1) when no record has an empty name and no name
\* repeats.
C1_PositionAmongAllRecords ==
    (IsLoadResult /\ ret.snapshot.kind = "text") =>
        LET names == ManifestNames(ret.snapshot.text)
        IN  /\ IsMappingOf(ret.value, ret.snapshot)
            /\ (/\ <<>> \notin Range(names)
                /\ Cardinality(Range(names)) = Len(names))
               => {ret.value[k] : k \in DOMAIN ret.value} = 0 .. (Len(names) - 1)

\* C1 witness: a manifest whose record with an empty name precedes a kept
\* record has been parsed.
C1_Witness ==
    /\ IsLoadResult /\ ret.parsed /\ ret.snapshot.kind = "text"
    /\ LET names == ManifestNames(ret.snapshot.text)
       IN  \E i, j \in DOMAIN names : i < j /\ names[i] = <<>> /\ names[j] # <<>>

\* C2 as stated: with no cache clear in between, an argument that has been
\* loaded is never parsed again, whatever was loaded in between.
C2_NeverParsedAgain ==
    (ret.op = "load_module_id_map" /\ ret.seen) => ~ret.parsed

\* C2 amended: the cache holds one entry, so a call with the argument of the
\* most recent successful load (no cache clear and no successful load of
\* another location in between) is not parsed again, and a location loaded
\* before another one was is parsed again.
C2_LatestNotParsedAgain ==
    ret.op = "load_module_id_map" =>
        /\ ret.latest => ~ret.parsed
        /\ (ret.seen /\ ~ret.latest) => ret.parsed

\* C2 witness: the most recently loaded location is loaded again.
C2_Witness ==
    ret.op = "load_module_id_map" /\ ret.latest /\ ~ret.parsed

\* C10: every load of a location not loaded since the last clear parses the
\* manifest and returns the mapping of its current content; a load of the
\* cached location returns the mapping parsed earlier, whatever the manifest
\* holds now.
C10_ClearInvalidates ==
    IsLoadResult =>
        LET current == files[<<resolve_source_dir(ret.arg), ManifestStem>>]
        IN  /\ ~ret.seen =>
                   /\ ret.parsed
                   /\ ret.snapshot = current
                   /\ IsMappingOf(ret.value, current)
            /\ ret.latest =>
                   /\ ~ret.parsed
                   /\ IsMappingOf(ret.value, ret.snapshot)

\* C10 witness: a location cached before a clear is loaded after it, and its
\* mapping differs from the one a stale entry would have given.
C10_Witness ==
    /\ IsLoadResult /\ ret.cleared /\ ret.parsed
    /\ ret.value # EmptyDict

\* C10 witness of the other half: a cached location is loaded after its
\* manifest was edited and the stale mapping comes back.
C10_StaleWitness ==
    /\ IsLoadResult /\ ret.latest
    /\ ret.snapshot # files[<<resolve_source_dir(ret.arg), ManifestStem>>]
    /\ ~IsMappingOf(ret.value, files[<<resolve_source_dir(ret.arg), ManifestStem>>])

---------------------------------------------------------------------------
(* Claims about the vectorizer and the index store.                        *)

\* C8: an entry's sparse vector stores only tokens of non-zero weight; a
\* token that occurs in every entry of the database has no key in any entry's
\* vector.
C8_OnlyNonZeroStored ==
    \A d \in dat_files_of(build) :
        LET db == build.dat[d].data
            everywhere == {w \in Range(db.vocab) :
                              \A j \in DOMAIN db.entries :
                                  w \in Range(tokenize(db.entries[j]))}
        IN  \A i \in DOMAIN db.vectors :
                /\ \A k \in DOMAIN db.vectors[i] : db.vectors[i][k] # 0
                /\ \A w \in everywhere :
                       str_int(word_index(db.vocab)[w]) \notin DOMAIN db.vectors[i]

HasEntries(f) == f.kind = "text" /\ split_entries(f.text) # <<>>

\* C9: a source file that cannot be read or has no entries does not keep
\* vectorize_all from indexing its siblings: when the batch ends, every
\* source file of the location that has entries has its index written.
C9_SiblingsIndexed ==
    ret.op = "vectorize_all" =>
        /\ \A p \in txt_files_of(files, DefaultDir) :
               HasEntries(files[p]) =>
                   /\ build.exists
                   /\ p[2] \in DOMAIN build.dat
                   /\ build.dat[p[2]].data.entries = split_entries(files[p].text)

---------------------------------------------------------------------------
(* Claims about the query engine and the result enricher.                  *)

IsQuery == ret.op \in {"search", "_search", "search_all"}

IsSingleQuery == ret.op \in {"search", "_search"}

HasNoWords(query) == \A i \in DOMAIN query : query[i] \notin WordChars

ManifestReadable == files[<<DefaultDir, ManifestStem>>].kind # "undecodable"

\* C3: a query with words and top_k >= 1 against a missing or corrupt index
\* (file or directory absent, or a document lacking a required field) is
\* reported as a failure by search and by search_all.
C3_FailureReported ==
    (/\ ret.op \in {"search", "search_all"}
     /\ ~HasNoWords(ret.query) /\ ret.top_k >= 1
     /\ IF ret.op = "search" THEN ~IsIntact(build, ret.database)
        ELSE \/ ~build.exists
             \/ \E d \in DOMAIN build.dat : ~IsIntact(build, d))
    => ret.status = "error"

\* C4 as stated: a query without words returns an empty sequence and never
\* an error, whatever the state of the index location (here even with the
\* registry manifest readable).
C4_EmptyQueryNeverFails ==
    (IsQuery /\ HasNoWords(ret.query) /\ ManifestReadable)
    => (ret.status = "ok" /\ ret.value = <<>>)

\* The index files the call opens exist and hold JSON.
IndexesParse ==
    IF IsSingleQuery
    THEN /\ build.exists
         /\ ret.database \in DOMAIN build.dat
         /\ build.dat[ret.database].kind = "json"
    ELSE \A d \in dat_files_of(build) : build.dat[d].kind = "json"

\* C4 amended: with the registry manifest readable, a query without words
\* returns an empty sequence and no error exactly when every index file the
\* call opens exists and parses as JSON, whatever fields it holds (a missing
\* location is an empty collection for search_all); otherwise the failure to
\* load the index is raised, because the index is loaded before the query is
\* tokenized.
C4_EmptyQueryUnlessUnloadable ==
    (IsQuery /\ HasNoWords(ret.query) /\ ManifestReadable)
    => IF IndexesParse THEN ret.status = "ok" /\ ret.value = <<>>
       ELSE ret.status = "error"

\* C4 witness: a query without words on an index document that lacks a
\* required field returns the empty sequence.
C4_Witness ==
    /\ IsSingleQuery /\ HasNoWords(ret.query) /\ ret.query # <<>>
    /\ ret.top_k >= 1
    /\ IndexesParse /\ ~IsIntact(build, ret.database)
    /\ ret.status = "ok" /\ ret.value = <<>>

\* C5: for a query with words and top_k >= 1, search returns min(top_k, N)
\* results in descending similarity, equal similarities in ascending entry
\* position, and no entry left out scores higher than a returned one.
C5_TopKOrdered ==
    (IsSingleQuery /\ ret.status = "ok" /\ ~HasNoWords(ret.query) /\ ret.top_k >= 1)
    => LET db == build.dat[ret.database].data
           N == Len(db.entries)
           scores == score_entries(db, tokenize(ret.query))
           v == ret.value
           returned == {v[n].opcode : n \in DOMAIN v}
       IN  /\ Len(v) = IF ret.top_k < N THEN ret.top_k ELSE N
           /\ \A n \in DOMAIN v :
                  /\ v[n].opcode \in 0 .. (N - 1)
                  /\ v[n].similarity = scores[v[n].opcode + 1].similarity
           /\ \A m, n \in DOMAIN v :
                  m < n => \/ v[m].similarity > v[n].similarity
                           \/ /\ v[m].similarity = v[n].similarity
                              /\ v[m].opcode < v[n].opcode
           /\ \A i \in (0 .. (N - 1)) \ returned :
                  \A n \in DOMAIN v : scores[i + 1].similarity <= v[n].similarity

\* C5 witness: a search that leaves an entry out returned two entries of
\* equal, non-zero similarity.
C5_Witness ==
    /\ ret.op = "search" /\ ret.status = "ok"
    /\ Len(ret.value) = 2
    /\ Len(build.dat[ret.database].data.entries) > 2
    /\ ret.value[1].similarity = ret.value[2].similarity
    /\ ret.value[1].similarity > 0

\* The entries of all the index files of the build location.
UnionEntries ==
    UNION {{<<d, i - 1>> : i \in DOMAIN build.dat[d].data.vectors} :
              d \in dat_files_of(build)}

\* C6: search_all returns at most top_k results in descending similarity,
\* and they are top_k highest-scoring entries of the union of all indexes
\* (none for a query without words), in whatever order the index files are
\* enumerated.
C6_GlobalTopK ==
    (ret.op = "search_all" /\ ret.status = "ok")
    => LET v == ret.value
           words == tokenize(ret.query)
           score(e) == score_entries(build.dat[e[1]].data, words)[e[2] + 1].similarity
           returned == {<<v[n].database, v[n].opcode>> : n \in DOMAIN v}
       IN  /\ Len(v) <= ret.top_k
           /\ \A m, n \in DOMAIN v : m < n => v[m].similarity >= v[n].similarity
           /\ IF HasNoWords(ret.query) THEN v = <<>>
              ELSE /\ Len(v) = IF ret.top_k < Cardinality(UnionEntries)
                               THEN ret.top_k ELSE Cardinality(UnionEntries)
                   /\ Cardinality(returned) = Len(v)
                   /\ returned \subseteq UnionEntries
                   /\ \A n \in DOMAIN v :
                          v[n].similarity = score(<<v[n].database, v[n].opcode>>)
                   /\ \A e \in UnionEntries \ returned :
                          \A n \in DOMAIN v : score(e) <= v[n].similarity

\* C6 witness: search_all returned entries of two different indexes, both
\* with a non-zero similarity, and left others out.
C6_Witness ==
    /\ ret.op = "search_all" /\ ret.status = "ok"
    /\ Len(ret.value) = 3
    /\ Cardinality(UnionEntries) > 3
    /\ ret.value[1].database # ret.value[3].database
    /\ ret.value[3].similarity > 0
    /\ ret.dats[1] # ret.value[1].database

\* C7: a result of a database D other than the manifest's has kind op,
\* database and module name D, the registry's id for D (None when absent),
\* the entry at position opcode, and the signature
\* '<id or ?>.<opcode>(<params joined by ", ">)'; an id of 0 reads '0'.
C7_OpResult ==
    (IsQuery /\ ret.status = "ok")
    => \A n \in DOMAIN ret.value :
           LET r == ret.value[n]
               D == r.database
               mid == IF r.module_id = None THEN <<"?">> ELSE str_int(r.module_id[1])
           IN  D # ManifestStem =>
                   /\ IF IsSingleQuery THEN D = ret.database ELSE D \in Range(ret.dats)
                   /\ r.kind = "op"
                   /\ r.module_name = D
                   /\ r.module_id = IF D \in DOMAIN ret.module_map
                                    THEN <<ret.module_map[D]>> ELSE None
                   /\ r.entry = build.dat[D].data.entries[r.opcode + 1]
                   /\ r.signature = mid \o <<".">> \o str_int(r.opcode) \o <<"(">>
                                        \o str_join(<<",", " ">>, r.params) \o <<")">>
                   /\ (r.module_id = <<0>>) => r.signature[1] = "0"

\* C7 witness: the search of the test, 'how to add numbers' on mymod with
\* module id 0, returned the signature '0.0(a, b)'.
C7_Witness ==
    /\ ret.op = "search" /\ ret.status = "ok" /\ ret.database = MymodStem
    /\ Len(ret.value) >= 1
    /\ ret.value[1].module_id = <<0>>
    /\ ret.value[1].signature = <<"0", ".", "0", "(", "a", ",", " ", "b", ")">>

====
